---- MODULE Spec2Model ----
(***************************************************************************)
(* A model of download_pdfs.py (nrbrook/nudel-downloader): the title       *)
(* normalisation and fuzzy matching functions, and the download / deploy   *)
(* pipeline of main().                                                     *)
(*                                                                         *)
(* Strings are sequences of one-character strings.  Scores are exact       *)
(* rationals [n, d] in lowest terms; the inputs of the model are chosen    *)
(* so that no comparison of the code falls on a floating-point boundary.   *)
(***************************************************************************)
EXTENDS Integers, Sequences, FiniteSets, TLC

VARIABLES
    \* ---- title functions (SpecTitle)
    tA, tB,          \* the two titles handed to the functions
    pcT,             \* "init" | "normalized" | "scored"
    nA, nB,          \* normalize_title(tA), normalize_title(tB)
    nnA,             \* normalize_title(normalize_title(tA))
    sAB, sBA,        \* calculate_match_score(tA, tB), (tB, tA)
    \* ---- find_best_video_match (SpecMatch)
    mTitle,          \* the title argument
    mMap,            \* video_map: the dictionary's items, in iteration order
    mLevel,          \* the level argument: <<>> (None) or <<n>>
    pcM,             \* "call" | "done"
    mResult,         \* the returned URL, or None
    \* ---- main (Spec)
    mode,            \* "download" | "deploy" (--deploy)
    page,            \* the tags of the step-by-step page
    pc,              \* where main is
    exit_code,       \* <<>> while running, <<n>> once the process has exited
    run,             \* the number of this run of the script
    pdf_data,        \* the extracted (url, thumb, title) records
    idx,             \* the download loop's position in pdf_data
    pdf_filename,    \* the file name download_pdf returned in this iteration
    stats,           \* successful_pdfs, failed_pdfs, successful_thumbs, failed_thumbs
    processed_data,  \* the (url, thumb, title, pdf_filename) records of the gallery
    video_map,       \* the title index, in insertion order
    tutorial_i,      \* the next tutorial page
    files,           \* the file system: <<directory, name>> -> content
    gallery,         \* the cards of the gallery file, once written
    \* ---- what happened in this run
    page_status,     \* "pending" | "ok" | "failed": the step-by-step page's fetch
    requests,        \* the network requests issued, in order
    calls,           \* the calls of download_pdf and download_image, in order
    tutorial_log,    \* the tutorial pages attempted, in order, with the outcome
    gallery_writes,  \* how often the gallery file was written
    files_at_start,  \* the file system when the run started
    \* ---- one call of download_pdf (SpecPdf)
    dUrl,            \* the URL handed to download_pdf
    dFiles,          \* the file system before the call
    dOutcome,        \* the answer the network gives to the request
    pcD,             \* "idle" | "call" | "done"
    dResult          \* what download_pdf returned and left on disk

titleVars == <<tA, tB, pcT, nA, nB, nnA, sAB, sBA>>
matchVars == <<mTitle, mMap, mLevel, pcM, mResult>>
mainVars == <<mode, page, pc, exit_code, run, pdf_data, idx, pdf_filename, stats,
              processed_data, video_map, tutorial_i, files, gallery>>
runVars == <<page_status, requests, calls, tutorial_log, gallery_writes,
             files_at_start>>

pdfVars == <<dUrl, dFiles, dOutcome, pcD, dResult>>
vars == <<titleVars, matchVars, mainVars, runVars, pdfVars>>

\* Python's None, where the value is otherwise a string
None == "None"

(***************************************************************************)
(* Characters                                                              *)
(***************************************************************************)
LowerAlpha == <<"a","b","c","d","e","f","g","h","i","j","k","l","m",
                "n","o","p","q","r","s","t","u","v","w","x","y","z">>
UpperAlpha == <<"A","B","C","D","E","F","G","H","I","J","K","L","M",
                "N","O","P","Q","R","S","T","U","V","W","X","Y","Z">>
Digits == <<"0","1","2","3","4","5","6","7","8","9">>

Range(s) == {s[i] : i \in 1..Len(s)}

\* \s of the regular expressions
IsSpace(c) == c \in {" ", "\t", "\n"}
\* \d
IsDigit(c) == c \in Range(Digits)
\* \w: letters, digits and the underscore
IsWord(c) == c \in Range(LowerAlpha) \cup Range(UpperAlpha) \cup Range(Digits) \cup {"_"}
\* the optional separator class after the level number (the hyphen, the
\* colon, and the characters of the two mis-encoded dashes)
LevelSeparators == {"-", ":"}

\* str.lower() on one character
LowerChar(c) ==
    IF \E i \in 1..Len(UpperAlpha) : UpperAlpha[i] = c
    THEN LowerAlpha[CHOOSE i \in 1..Len(UpperAlpha) : UpperAlpha[i] = c]
    ELSE c

lower(s) == [i \in 1..Len(s) |-> LowerChar(s[i])]

DigitValue(c) == (CHOOSE i \in 1..Len(Digits) : Digits[i] = c) - 1

\* the first index >= p whose character is not a space (Len(s)+1 if none)
RECURSIVE SkipSpaces(_, _)
SkipSpaces(s, p) ==
    IF p <= Len(s) /\ IsSpace(s[p]) THEN SkipSpaces(s, p + 1) ELSE p

RECURSIVE SkipDigits(_, _)
SkipDigits(s, p) ==
    IF p <= Len(s) /\ IsDigit(s[p]) THEN SkipDigits(s, p + 1) ELSE p

LEVEL == <<"l","e","v","e","l">>

HasAt(s, p, w) == p + Len(w) - 1 <= Len(s) /\ SubSeq(s, p, p + Len(w) - 1) = w

Min(S) == CHOOSE x \in S : \A y \in S : x <= y

(***************************************************************************)
(* normalize_title                                                         *)
(***************************************************************************)
\* [-...:]? at p: the index behind the optional separator
SkipSeparator(s, p) ==
    IF p <= Len(s) /\ s[p] \in LevelSeparators THEN p + 1 ELSE p

\* \d+\s*[-...:]?\s* at p1: s without the match and what precedes it, or
\* s when there is no digit at p1
StripLevelNumber(s, p1) ==
    IF SkipDigits(s, p1) = p1 THEN s
    ELSE SubSeq(s, SkipSpaces(s, SkipSeparator(s, SkipSpaces(s, SkipDigits(s, p1)))),
                Len(s))

\* a title that keeps its level prefix
KeepLevelPrefix(s) == s

\* re.sub(r"^level\s*\d+\s*[-...:]?\s*", "", s): the match is anchored at
\* the start, so at most one prefix is removed
StripLevelPrefix(s) ==
    IF ~HasAt(s, 1, LEVEL) THEN s
    ELSE StripLevelNumber(s, SkipSpaces(s, Len(LEVEL) + 1))

\* .replace("_", " ").replace("-", " ")
ReplaceSeparators(s) ==
    [i \in 1..Len(s) |-> IF s[i] \in {"_", "-"} THEN " " ELSE s[i]]

\* re.sub(r"[^\w\s]", "", s)
RECURSIVE RemovePunctuation(_)
RemovePunctuation(s) ==
    IF s = <<>> THEN <<>>
    ELSE (IF IsWord(Head(s)) \/ IsSpace(Head(s)) THEN <<Head(s)>> ELSE <<>>)
         \o RemovePunctuation(Tail(s))

\* re.sub(r"\s+", " ", s)
RECURSIVE CollapseSpaces(_)
CollapseSpaces(s) ==
    IF s = <<>> THEN <<>>
    ELSE IF IsSpace(Head(s))
         THEN <<" ">> \o CollapseSpaces(SubSeq(s, SkipSpaces(s, 1), Len(s)))
         ELSE <<Head(s)>> \o CollapseSpaces(Tail(s))

\* str.strip()
RECURSIVE strip(_)
strip(s) ==
    IF s = <<>> THEN s
    ELSE IF IsSpace(s[1]) THEN strip(Tail(s))
    ELSE IF IsSpace(s[Len(s)]) THEN strip(SubSeq(s, 1, Len(s) - 1))
    ELSE s

normalize_title(title) ==
    IF title = <<>> THEN <<>>
    ELSE strip(CollapseSpaces(RemovePunctuation(ReplaceSeparators(
             StripLevelPrefix(lower(title))))))

(***************************************************************************)
(* extract_level: <<>> is None, <<n>> is the level n                       *)
(***************************************************************************)
RECURSIVE DigitsToInt(_, _)
DigitsToInt(s, acc) ==
    IF s = <<>> THEN acc ELSE DigitsToInt(Tail(s), 10 * acc + DigitValue(Head(s)))

\* whether r"level\s*(\d+)" matches at position p
LevelAt(s, p) ==
    /\ HasAt(s, p, LEVEL)
    /\ SkipDigits(s, SkipSpaces(s, p + Len(LEVEL))) > SkipSpaces(s, p + Len(LEVEL))

\* int(match.group(1)) of the match at p
LevelNumber(s, p) ==
    DigitsToInt(SubSeq(s, SkipSpaces(s, p + Len(LEVEL)),
                       SkipDigits(s, SkipSpaces(s, p + Len(LEVEL))) - 1), 0)

\* re.search(r"level\s*(\d+)", s): the leftmost match
SearchLevel(s) ==
    LET hits == {p \in 1..Len(s) : LevelAt(s, p)}
    IN  IF hits = {} THEN <<>> ELSE <<LevelNumber(s, Min(hits))>>

extract_level(title) ==
    IF title = <<>> THEN <<>> ELSE SearchLevel(lower(title))

(***************************************************************************)
(* tokenize                                                                *)
(***************************************************************************)
\* str.split(): the maximal runs of non-space characters
RECURSIVE split(_)
split(s) ==
    LET p == SkipSpaces(s, 1)
        NextSpace[q \in 1..(Len(s) + 1)] ==
            IF q > Len(s) \/ IsSpace(s[q]) THEN q ELSE NextSpace[q + 1]
    IN  IF p > Len(s) THEN {}
        ELSE {SubSeq(s, p, NextSpace[p] - 1)}
             \cup split(SubSeq(s, NextSpace[p], Len(s)))

tokenize(text) == split(normalize_title(text))

(***************************************************************************)
(* Exact rationals for the scores                                          *)
(***************************************************************************)
RECURSIVE GCD(_, _)
GCD(a, b) == IF b = 0 THEN a ELSE GCD(b, a % b)

\* n/d in lowest terms (n >= 0, d > 0)
Rat(n, d) == LET g == GCD(n, d) IN [n |-> n \div g, d |-> d \div g]

RatLess(x, y) == x.n * y.d < y.n * x.d
RatAdd(x, y) == Rat(x.n * y.d + y.n * x.d, x.d * y.d)
RatMax(x, y) == IF RatLess(x, y) THEN y ELSE x
RatMin(x, y) == IF RatLess(x, y) THEN x ELSE y

Zero == Rat(0, 1)
One == Rat(1, 1)

(***************************************************************************)
(* difflib.SequenceMatcher(None, a, b).ratio(): no junk, and no "popular"  *)
(* elements below 200 characters.  Ranges are [lo, hi) over 1-based        *)
(* indices.                                                                *)
(***************************************************************************)
\* the length of the common run starting at a[i], b[j]
RECURSIVE RunLen(_, _, _, _, _, _)
RunLen(a, b, i, j, ahi, bhi) ==
    IF i < ahi /\ j < bhi /\ a[i] = b[j]
    THEN 1 + RunLen(a, b, i + 1, j + 1, ahi, bhi)
    ELSE 0

\* <<i, j, k>>: the longest matching block of a[alo:ahi] and b[blo:bhi]; of
\* the longest ones the one starting earliest in a, and of those the one
\* starting earliest in b
find_longest_match(a, b, alo, ahi, blo, bhi) ==
    LET len == [p \in (alo..(ahi - 1)) \X (blo..(bhi - 1)) |->
                   RunLen(a, b, p[1], p[2], ahi, bhi)]
        best == CHOOSE k \in 0..(ahi - alo) :
                    /\ \A p \in DOMAIN len : len[p] <= k
                    /\ k = 0 \/ \E p \in DOMAIN len : len[p] = k
        tops == {p \in DOMAIN len : len[p] = best}
        first == CHOOSE p \in tops :
                    \A q \in tops : p[1] < q[1] \/ (p[1] = q[1] /\ p[2] <= q[2])
    IN  IF best = 0 THEN <<alo, blo, 0>> ELSE <<first[1], first[2], best>>

\* the total size of get_matching_blocks(): the longest block, then the
\* pieces to its left and to its right
RECURSIVE MatchingTotal(_, _, _, _, _, _)
\* the size of the block m and of the blocks of the pieces around it
MatchingAround(a, b, alo, ahi, blo, bhi, m) ==
    IF m[3] = 0 THEN 0
    ELSE m[3] + MatchingTotal(a, b, alo, m[1], blo, m[2])
              + MatchingTotal(a, b, m[1] + m[3], ahi, m[2] + m[3], bhi)

MatchingTotal(a, b, alo, ahi, blo, bhi) ==
    IF alo >= ahi \/ blo >= bhi THEN 0
    ELSE MatchingAround(a, b, alo, ahi, blo, bhi,
                        find_longest_match(a, b, alo, ahi, blo, bhi))

\* ratio() = 2.0 * matches / (len(a) + len(b)), as <<matches * 2, length>>
SequenceRatio(a, b) ==
    IF Len(a) + Len(b) = 0 THEN One
    ELSE Rat(2 * MatchingTotal(a, b, 1, Len(a) + 1, 1, Len(b) + 1), Len(a) + Len(b))

\* "x in y" on strings
Contains(y, x) == \E p \in 1..(Len(y) + 1) : HasAt(y, p, x)

(***************************************************************************)
(* calculate_match_score                                                   *)
(***************************************************************************)
JaccardWeight == Rat(6, 10)
SequenceWeight == Rat(4, 10)
ContainmentBonus == Rat(3, 10)

RatMul(x, y) == Rat(x.n * y.n, x.d * y.d)

\* the Jaccard similarity of the token sets
Jaccard(tokens1, tokens2) ==
    IF tokens1 # {} /\ tokens2 # {}
    THEN Rat(Cardinality(tokens1 \cap tokens2), Cardinality(tokens1 \cup tokens2))
    ELSE Zero

\* the bonus when one normalized title contains the other
Containment(norm1, norm2) ==
    IF Contains(norm2, norm1) \/ Contains(norm1, norm2)
    THEN ContainmentBonus ELSE Zero

\* the blend without the cap at 1.0
CombinedScore_NoCap(jaccard, sequence_ratio, containment_bonus) ==
    RatMax(RatAdd(RatAdd(RatMul(jaccard, JaccardWeight),
                         RatMul(sequence_ratio, SequenceWeight)),
                  containment_bonus),
           sequence_ratio)

\* min(max(jaccard * 0.6 + sequence_ratio * 0.4 + containment_bonus,
\*         sequence_ratio), 1.0)
CombinedScore(jaccard, sequence_ratio, containment_bonus) ==
    RatMin(RatMax(RatAdd(RatAdd(RatMul(jaccard, JaccardWeight),
                                RatMul(sequence_ratio, SequenceWeight)),
                         containment_bonus),
                  sequence_ratio),
           One)

\* the score of the normalized titles norm1, norm2 with the token sets
\* tokens1, tokens2 of the titles
ScoreNormalized(norm1, norm2, tokens1, tokens2) ==
    IF norm1 = <<>> \/ norm2 = <<>> THEN Zero
    ELSE IF norm1 = norm2 THEN One
    ELSE CombinedScore(Jaccard(tokens1, tokens2), SequenceRatio(norm1, norm2),
                       Containment(norm1, norm2))

calculate_match_score(title1, title2) ==
    ScoreNormalized(normalize_title(title1), normalize_title(title2),
                    tokenize(title1), tokenize(title2))

(***************************************************************************)
(* find_best_video_match.  vmap is the video_map argument: the sequence of *)
(* the dictionary's items [key, url] in iteration (insertion) order, with  *)
(* distinct keys.                                                          *)
(***************************************************************************)
min_score == Rat(6, 10)
\* "score > best_score + 0.1"
BetterMargin == Rat(1, 10)
\* "score > best_score - 0.05"
CloseMargin == Rat(5, 100)

NoBest == [score |-> Zero, url |-> None, level_match |-> FALSE]

\* an update that takes only the scores above 0.9
Consider_HighBar(best, item, score, same_level) ==
    IF RatLess(Rat(9, 10), score) /\ RatLess(best.score, score)
    THEN [score |-> score, url |-> item.url, level_match |-> same_level]
    ELSE best

\* the update of the best match so far by an item with its score and with
\* same_level
Consider(best, item, score, same_level) ==
    LET is_better ==
            \/ RatLess(RatAdd(best.score, BetterMargin), score)
            \/ /\ RatLess(best.score, RatAdd(score, CloseMargin))
               /\ same_level
               /\ ~best.level_match
    IN  IF /\ RatLess(min_score, score)
           /\ is_better \/ best.url = None
           /\ RatLess(best.score, score) \/ (same_level /\ ~best.level_match)
        THEN [score |-> score, url |-> item.url, level_match |-> same_level]
        ELSE best

\* FuzzyStep without the same-level preference (same_level always False)
FuzzyStep_NoLevel(best, title, item, level) ==
    Consider(best, item, calculate_match_score(title, item.key), FALSE)

\* one iteration of the fuzzy loop over an item of vmap
FuzzyStep(best, title, item, level) ==
    Consider(best, item, calculate_match_score(title, item.key),
             level # <<>> /\ extract_level(item.key) = level)

\* the fuzzy loop from item i on
RECURSIVE FuzzyScan(_, _, _, _, _)
FuzzyScan(title, vmap, level, i, best) ==
    IF i > Len(vmap) THEN best
    ELSE FuzzyScan(title, vmap, level, i + 1,
                   FuzzyStep(best, title, vmap[i], level))

\* the items whose key is an exact normalized match
ExactMatches(title, vmap) ==
    {i \in 1..Len(vmap) :
        normalize_title(vmap[i].key) = normalize_title(title)}

\* find_best_video_match without the exact-match pass
find_best_video_match_FuzzyOnly(title, vmap, level) ==
    IF title = <<>> \/ vmap = <<>> THEN None
    ELSE FuzzyScan(title, vmap, level, 1, NoBest).url

find_best_video_match(title, vmap, level) ==
    IF title = <<>> \/ vmap = <<>> THEN None
    ELSE IF ExactMatches(title, vmap) # {}
         THEN vmap[Min(ExactMatches(title, vmap))].url
         ELSE FuzzyScan(title, vmap, level, 1, NoBest).url

\* the variables of a part of the model that a specification does not use
MatchIdle ==
    /\ mTitle = <<>> /\ mMap = <<>> /\ mLevel = <<>>
    /\ pcM = "idle" /\ mResult = None

TitleIdle ==
    /\ tA = <<>> /\ tB = <<>> /\ pcT = "idle"
    /\ nA = <<>> /\ nB = <<>> /\ nnA = <<>>
    /\ sAB = Zero /\ sBA = Zero

PdfIdle ==
    /\ dUrl = <<>> /\ dFiles = <<>> /\ pcD = "idle"
    /\ dOutcome = [status |-> "error", ctype_pdf |-> FALSE, magic |-> FALSE,
                   body |-> "ok"]
    /\ dResult = [success |-> FALSE, filename |-> <<>>, requested |-> FALSE,
                  files |-> <<>>]

NoStats == [successful_pdfs |-> 0, failed_pdfs |-> 0,
            successful_thumbs |-> 0, failed_thumbs |-> 0]

MainIdle ==
    /\ mode = "idle" /\ page = <<>> /\ pc = "idle" /\ exit_code = <<>>
    /\ run = 0 /\ pdf_data = <<>> /\ idx = 0 /\ pdf_filename = <<>>
    /\ stats = NoStats /\ processed_data = <<>> /\ video_map = <<>>
    /\ tutorial_i = 0 /\ files = <<>> /\ gallery = <<>>
    /\ page_status = "pending" /\ requests = <<>> /\ calls = <<>>
    /\ tutorial_log = <<>> /\ gallery_writes = 0 /\ files_at_start = <<>>

(***************************************************************************)
(* The titles the title functions are applied to                           *)
(***************************************************************************)
\* ""
T_empty == <<>>
\* "aba"
T_aba == <<"a", "b", "a">>
\* "bca"
T_bca == <<"b", "c", "a">>
\* "Level 1"
T_Level1 == <<"L", "e", "v", "e", "l", " ", "1">>
\* "level2"
T_level2 == <<"l", "e", "v", "e", "l", "2">>
\* "level 1 level 2 ab"
T_twoLevels == <<"l", "e", "v", "e", "l", " ", "1", " ", "l", "e", "v", "e", "l", " ", "2", " ", "a", "b">>
\* "Level 2 - ab"
T_level2_ab == <<"L", "e", "v", "e", "l", " ", "2", " ", "-", " ", "a", "b">>
\* "ab"
T_ab == <<"a", "b">>
\* "a_b"
T_a_b == <<"a", "_", "b">>
\* "ab!"
T_abBang == <<"a", "b", "!">>
\* "-level 1 ab"
T_dashLevel == <<"-", "l", "e", "v", "e", "l", " ", "1", " ", "a", "b">>
\* " a  b"
T_a__b == <<" ", "a", " ", " ", "b">>
\* "Level 2 - Build a Cube"
T_Cube == <<"L", "e", "v", "e", "l", " ", "2", " ", "-", " ", "B", "u", "i", "l", "d", " ", "a", " ", "C", "u", "b", "e">>
\* "level 2 build a cube"
T_cube == <<"l", "e", "v", "e", "l", " ", "2", " ", "b", "u", "i", "l", "d", " ", "a", " ", "c", "u", "b", "e">>

\* "Build a Cube 2"
T_Cube2 == <<"B", "u", "i", "l", "d", " ", "a", " ", "C", "u", "b", "e", " ", "2">>

Titles == {T_Cube2, T_empty, T_aba, T_bca, T_Level1, T_level2, T_twoLevels, T_level2_ab, T_ab, T_a_b, T_abBang, T_dashLevel, T_a__b, T_Cube, T_cube}

(***************************************************************************)
(* SpecTitle: normalize_title and calculate_match_score applied to every   *)
(* pair of Titles                                                          *)
(***************************************************************************)
InitTitle ==
    /\ tA \in Titles
    /\ tB \in Titles
    /\ pcT = "init"
    /\ nA = <<>> /\ nB = <<>> /\ nnA = <<>>
    /\ sAB = Zero /\ sBA = Zero
    /\ MatchIdle
    /\ MainIdle
    /\ PdfIdle

\* normalize_title(tA), normalize_title(tB) and the normalisation of the
\* normalised tA
Normalize ==
    /\ pcT = "init"
    /\ nA' = normalize_title(tA)
    /\ nB' = normalize_title(tB)
    /\ nnA' = normalize_title(normalize_title(tA))
    /\ pcT' = "normalized"
    /\ UNCHANGED <<tA, tB, sAB, sBA>>
    /\ UNCHANGED <<matchVars, mainVars, runVars, pdfVars>>

\* calculate_match_score in both argument orders
Score ==
    /\ pcT = "normalized"
    /\ sAB' = calculate_match_score(tA, tB)
    /\ sBA' = calculate_match_score(tB, tA)
    /\ pcT' = "scored"
    /\ UNCHANGED <<tA, tB, nA, nB, nnA>>
    /\ UNCHANGED <<matchVars, mainVars, runVars, pdfVars>>

NextTitle == Normalize \/ Score

SpecTitle == InitTitle /\ [][NextTitle]_vars

(***************************************************************************)
(* SpecMatch: find_best_video_match applied to every title of MatchTitles, *)
(* every video_map of at most MaxMapLen items over MatchKeys and VideoUrls *)
(* in every order, with the level main's gallery passes                    *)
(* (extract_level(title)).                                                 *)
(***************************************************************************)
\* ""
M_empty == <<>>
\* "a b"
M_a_b == <<"a", " ", "b">>
\* "level 2 a"
M_level2_a == <<"l", "e", "v", "e", "l", " ", "2", " ", "a">>
\* "Level 2"
M_Level2 == <<"L", "e", "v", "e", "l", " ", "2">>
\* "level 1 a b"
M_level1_a_b == <<"l", "e", "v", "e", "l", " ", "1", " ", "a", " ", "b">>
\* "level 1 b a"
K_level1_b_a == <<"l", "e", "v", "e", "l", " ", "1", " ", "b", " ", "a">>
\* "a"
K_a == <<"a">>
\* "a a"
K_a_a == <<"a", " ", "a">>
\* "level 2 a aa"
K_level2_a_aa == <<"l", "e", "v", "e", "l", " ", "2", " ", "a", " ", "a", "a">>
\* "level 2 a"
K_level2_a == <<"l", "e", "v", "e", "l", " ", "2", " ", "a">>
\* "!!!"
K_bangs == <<"!", "!", "!">>
\* "a b"
K_a_b == <<"a", " ", "b">>

MatchTitles == {M_empty, M_a_b, M_level2_a, M_Level2, M_level1_a_b}
MatchKeys == {K_level1_b_a, K_a, K_a_a, K_level2_a_aa, K_level2_a, K_bangs, K_a_b}
VideoUrls == {"v1", "v2"}

MaxMapLen == 2

Items == [key : MatchKeys, url : VideoUrls]

\* the sequences of n items with pairwise distinct keys
RECURSIVE MapsOfLen(_)
MapsOfLen(n) ==
    IF n = 0 THEN {<<>>}
    ELSE UNION {{Append(m, it) :
                    it \in {x \in Items : \A i \in 1..Len(m) : m[i].key # x.key}} :
                m \in MapsOfLen(n - 1)}

VideoMaps == UNION {MapsOfLen(n) : n \in 0..MaxMapLen}

InitMatch ==
    /\ mTitle \in MatchTitles
    /\ mMap \in VideoMaps
    /\ mLevel = extract_level(mTitle)
    /\ pcM = "call"
    /\ mResult = None
    /\ TitleIdle
    /\ MainIdle
    /\ PdfIdle

Match ==
    /\ pcM = "call"
    /\ mResult' = find_best_video_match(mTitle, mMap, mLevel)
    /\ pcM' = "done"
    /\ UNCHANGED <<mTitle, mMap, mLevel>>
    /\ UNCHANGED <<titleVars, mainVars, runVars, pdfVars>>

NextMatch == Match

SpecMatch == InitMatch /\ [][NextMatch]_vars

(***************************************************************************)
(* Properties of the title functions (SpecTitle)                           *)
(***************************************************************************)
\* C2: normalization is idempotent: normalize_title(normalize_title(t)) =
\* normalize_title(t) for every title t
C2_NormalizeIdempotent ==
    pcT \in {"normalized", "scored"} => nnA = nA

\* C3: two titles with the same normalized form (the empty one included)
\* score exactly 1.0
C3_ExactNormalizedScoresOne ==
    (pcT = "scored" /\ nA = nB) => sAB = One

\* C4: the score is symmetric: calculate_match_score(a, b) =
\* calculate_match_score(b, a)
C4_ScoreSymmetric ==
    pcT = "scored" => sAB = sBA

\* C14: every score lies in the closed interval [0, 1]
C14_ScoreInUnitInterval ==
    pcT = "scored" =>
        /\ ~RatLess(sAB, Zero) /\ ~RatLess(One, sAB)
        /\ ~RatLess(sBA, Zero) /\ ~RatLess(One, sBA)

\* two titles with different normalized forms whose blend,
\* 0.45 + 0.369... + 0.3, is capped at 1.0
C14_Witness ==
    /\ pcT = "scored"
    /\ tA = T_Cube2 /\ tB = T_cube
    /\ nA # nB
    /\ sAB = One

\* C15: "Level 2 - Build a Cube" and "level 2 build a cube" both normalize
\* to "build a cube", and their score is exactly 1.0
C15_CubeScoresOne ==
    (pcT = "scored" /\ tA = T_Cube /\ tB = T_cube) =>
        /\ nA = <<"b", "u", "i", "l", "d", " ", "a", " ", "c", "u", "b", "e">>
        /\ nB = <<"b", "u", "i", "l", "d", " ", "a", " ", "c", "u", "b", "e">>
        /\ sAB = One

C15_Witness ==
    /\ pcT = "scored" /\ tA = T_Cube /\ tB = T_cube
    /\ nA = nB /\ sAB = One /\ sBA = One

(***************************************************************************)
(* Properties of find_best_video_match (SpecMatch)                         *)
(***************************************************************************)
ScoreOf(i) == calculate_match_score(mTitle, mMap[i].key)
AboveMin == {i \in 1..Len(mMap) : RatLess(min_score, ScoreOf(i))}
SameLevel(i) == mLevel # <<>> /\ extract_level(mMap[i].key) = mLevel
\* the two scores differ by less than 0.05
Close(i, j) ==
    /\ RatLess(ScoreOf(i), RatAdd(ScoreOf(j), CloseMargin))
    /\ RatLess(ScoreOf(j), RatAdd(ScoreOf(i), CloseMargin))

\* C1: with no exact normalized match and level None, the URL returned is
\* that of a candidate with the highest score among those above min_score
C1_HighestScoreReturned ==
    (/\ pcM = "done"
     /\ mLevel = <<>>
     /\ ExactMatches(mTitle, mMap) = {}
     /\ AboveMin # {})
    => \E i \in AboveMin :
          /\ mResult = mMap[i].url
          /\ \A j \in AboveMin : ~RatLess(ScoreOf(i), ScoreOf(j))

\* C5 as stated: whenever some key is an exact normalized match of the
\* title, the URL of the first such key in index order is returned
C5_ExactFirst_AnyTitle ==
    (pcM = "done" /\ ExactMatches(mTitle, mMap) # {})
    => mResult = mMap[Min(ExactMatches(mTitle, mMap))].url

\* C5 (amended): for a non-empty title, whenever some key is an exact
\* normalized match, the URL of the first such key in index order is
\* returned, whatever the scores and levels of the other keys
C5_ExactFirst ==
    (pcM = "done" /\ mTitle # <<>> /\ ExactMatches(mTitle, mMap) # {})
    => mResult = mMap[Min(ExactMatches(mTitle, mMap))].url

\* an exact match is returned although a same-level candidate above
\* min_score with another URL precedes it in the index
C5_Witness ==
    /\ pcM = "done"
    /\ mTitle # <<>>
    /\ ExactMatches(mTitle, mMap) # {}
    /\ \E j \in AboveMin :
          /\ j < Min(ExactMatches(mTitle, mMap))
          /\ SameLevel(j)
          /\ mMap[j].url # mMap[Min(ExactMatches(mTitle, mMap))].url
    /\ mResult = mMap[Min(ExactMatches(mTitle, mMap))].url

\* C6 as stated: with a level given and exactly two candidates above
\* min_score, one of the title's level and one not, less than 0.05 apart,
\* the same-level candidate's URL is returned
C6_SameLevelPreferred_AnyCandidates ==
    (/\ pcM = "done"
     /\ mLevel # <<>>
     /\ Cardinality(AboveMin) = 2)
    => \A s, n \in AboveMin :
          (SameLevel(s) /\ ~SameLevel(n) /\ Close(s, n))
          => mResult = mMap[s].url

\* C6 (amended): the same, provided the candidate that is not of the
\* title's level is not an exact normalized match of the title
C6_SameLevelPreferred ==
    (/\ pcM = "done"
     /\ mLevel # <<>>
     /\ Cardinality(AboveMin) = 2)
    => \A s, n \in AboveMin :
          (/\ SameLevel(s) /\ ~SameLevel(n) /\ Close(s, n)
           /\ n \notin ExactMatches(mTitle, mMap))
          => mResult = mMap[s].url

\* the same-level candidate comes second with the lower score and another
\* URL, and is returned
C6_Witness ==
    /\ pcM = "done"
    /\ mLevel # <<>>
    /\ Cardinality(AboveMin) = 2
    /\ ExactMatches(mTitle, mMap) = {}
    /\ \E s, n \in AboveMin :
          /\ SameLevel(s) /\ ~SameLevel(n) /\ Close(s, n)
          /\ n < s
          /\ RatLess(ScoreOf(s), ScoreOf(n))
          /\ mMap[s].url # mMap[n].url
          /\ mResult = mMap[s].url

\* C16: the result is None exactly when the title is empty, or the index
\* is empty, or no key is an exact normalized match and no key scores above
\* min_score; and a result that is not None is a URL of the index
C16_NoneIffNoMatch ==
    pcM = "done" =>
        /\ mResult = None <=>
              \/ mTitle = <<>>
              \/ mMap = <<>>
              \/ ExactMatches(mTitle, mMap) = {} /\ AboveMin = {}
        /\ mResult # None => \E i \in 1..Len(mMap) : mMap[i].url = mResult

\* a title and an index of two keys, one of which scores above 0 but not
\* above min_score, without a match
C16_Witness ==
    /\ pcM = "done"
    /\ mTitle # <<>> /\ Len(mMap) = 2
    /\ \E i \in 1..Len(mMap) :
          RatLess(Zero, ScoreOf(i)) /\ ~RatLess(min_score, ScoreOf(i))
    /\ mResult = None

(***************************************************************************)
(* Strings, URLs and file names                                            *)
(***************************************************************************)
\* the characters of the model in code-point order (sorted() compares the
\* URLs as strings)
CodePoints == <<"\t", "\n", " ", "!", "#", "-", ".", "/">> \o Digits
              \o <<":", "?">> \o UpperAlpha \o <<"_">> \o LowerAlpha

Ord(c) == CHOOSE i \in 1..Len(CodePoints) : CodePoints[i] = c

\* a < b on strings
RECURSIVE StrLess(_, _)
StrLess(a, b) ==
    IF b = <<>> THEN FALSE
    ELSE IF a = <<>> THEN TRUE
    ELSE IF Head(a) = Head(b) THEN StrLess(Tail(a), Tail(b))
    ELSE Ord(Head(a)) < Ord(Head(b))

EndsWith(s, w) == Len(w) <= Len(s) /\ SubSeq(s, Len(s) - Len(w) + 1, Len(s)) = w
StartsWith(s, w) == HasAt(s, 1, w)

\* the positions >= from at which w occurs in s
Occurrences(s, w, from) == {p \in from..Len(s) : HasAt(s, p, w)}

DOT_PDF == <<".", "p", "d", "f">>

\* ".pdf" in s.lower()
MentionsPdf(s) == Contains(lower(s), DOT_PDF)

\* urlparse(url).path: what follows the network location, up to the query
\* or the fragment
UrlPathStart(url) ==
    LET scheme == Occurrences(url, <<":", "/", "/">>, 1)
        after == IF scheme = {} THEN 1 ELSE Min(scheme) + 3
        slashes == Occurrences(url, <<"/">>, after)
    IN  IF scheme = {} THEN 1
        ELSE IF slashes = {} THEN Len(url) + 1 ELSE Min(slashes)

\* the path that starts at start
PathFrom(url, start) ==
    LET ends == Occurrences(url, <<"?">>, start) \cup Occurrences(url, <<"#">>, start)
    IN  SubSeq(url, start, (IF ends = {} THEN Len(url) + 1 ELSE Min(ends)) - 1)

UrlPath(url) == PathFrom(url, UrlPathStart(url))

\* os.path.basename: what follows the last "/"
basename(path) ==
    LET slashes == Occurrences(path, <<"/">>, 1)
    IN  IF slashes = {} THEN path
        ELSE SubSeq(path, (CHOOSE p \in slashes : \A q \in slashes : q <= p) + 1,
                    Len(path))

\* os.path.splitext: <<root, ext>>, split at the last "." when it lies in
\* the last component, behind a character of it that is not a "."
splitext(p) ==
    LET Last(S) == IF S = {} THEN 0 ELSE CHOOSE x \in S : \A y \in S : y <= x
        sepIndex == Last({i \in 1..Len(p) : p[i] = "/"})
        dotIndex == Last({i \in 1..Len(p) : p[i] = "."})
    IN  IF dotIndex > sepIndex /\ \E i \in (sepIndex + 1)..(dotIndex - 1) : p[i] # "."
        THEN <<SubSeq(p, 1, dotIndex - 1), SubSeq(p, dotIndex, Len(p))>>
        ELSE <<p, <<>>>>

\* the non-empty parts of path.split("/")
RECURSIVE PathParts(_)
PathParts(path) ==
    LET slashes == Occurrences(path, <<"/">>, 1)
    IN  IF path = <<>> THEN <<>>
        ELSE IF slashes = {} THEN <<path>>
        ELSE (IF Min(slashes) = 1 THEN <<>> ELSE <<SubSeq(path, 1, Min(slashes) - 1)>>)
             \o PathParts(SubSeq(path, Min(slashes) + 1, Len(path)))

\* the scheme and the network location of a URL
Origin(url) == SubSeq(url, 1, UrlPathStart(url) - 1)

\* a path without its last component
Directory(path) == SubSeq(path, 1, Len(path) - Len(basename(path)))

\* urljoin(base, ref) for an absolute reference, a reference that starts
\* with "/" and a reference relative to the directory of the base
urljoin(base, ref) ==
    IF Occurrences(ref, <<":", "/", "/">>, 1) # {} THEN ref
    ELSE IF StartsWith(ref, <<"/">>) THEN Origin(base) \o ref
    ELSE Origin(base) \o Directory(UrlPath(base)) \o ref

\* re.sub(r"[^\w\-_\.]", "_", filename)
sanitize(filename) ==
    [i \in 1..Len(filename) |->
        IF IsWord(filename[i]) \/ filename[i] \in {"-", "_", "."}
        THEN filename[i] ELSE "_"]

\* the title made of a URL's file name: splitext(basename(path))[0] with
\* "_" and "-" replaced by spaces
filename_title(url) == ReplaceSeparators(splitext(basename(UrlPath(url)))[1])

(***************************************************************************)
(* find_pdf_links_with_thumbnails.  The parsed page is the sequence of its *)
(* tags in document order; a tag is [name, attr, text, img_alt, thumb]:    *)
(* its URL-valued attribute (href, src, data, or any other attribute), its *)
(* text (the link text, or the script's string), the alt text of an image  *)
(* inside the link, and the src of the image that the search in the link,  *)
(* its three ancestors and its siblings finds.  <<>> is an absent value.   *)
(***************************************************************************)
base_url == <<"h", "t", "t", "p", "s", ":", "/", "/", "n", "u", "d", "e", "l", ".", "s", "h", "o", "p", "/", "p", "a", "g", "e", "s", "/", "s", "t", "e", "p", "-", "b", "y", "-", "s", "t", "e", "p">>

GenericTitles == {<<"l", "e", "t", "'", "s", " ", "b", "u", "i", "l", "d", " ", "i", "t", "!">>, <<"d", "o", "w", "n", "l", "o", "a", "d">>, <<"v", "i", "e", "w">>, <<"p", "d", "f">>, <<"c", "l", "i", "c", "k", " ", "h", "e", "r", "e">>}

\* the title of an <a> link: its text, else the alt text of its image, and
\* the file name's title when that is missing, generic or shorter than 5
LinkTitle(tag, absolute_url) ==
    LET text == strip(tag.text)
        title == IF text # <<>> THEN text ELSE tag.img_alt
    IN  IF title = <<>> \/ lower(title) \in GenericTitles \/ Len(title) < 5
        THEN filename_title(absolute_url)
        ELSE title

\* the match that starts at start and whose host starts at body: it ends
\* with the last ".pdf" before the first excluded character
MatchFrom(text, low, start, body) ==
    LET stops == {p \in body..Len(text) : IsSpace(text[p]) \/ text[p] \in {"\"", "'", "<", ">"}}
        stop == IF stops = {} THEN Len(text) + 1 ELSE Min(stops)
        pdfs == {p \in (body + 1)..(stop - Len(DOT_PDF)) : HasAt(low, p, DOT_PDF)}
    IN  IF pdfs = {} THEN <<>>
        ELSE SubSeq(text, start,
                    (CHOOSE p \in pdfs : \A q \in pdfs : q <= p) + Len(DOT_PDF) - 1)

MatchAt(text, low, start) ==
    MatchFrom(text, low, start, Min(Occurrences(low, <<":", "/", "/">>, start)) + 3)

\* the positions of "http://" and "https://"
SchemeStarts(low) ==
    Occurrences(low, <<"h", "t", "t", "p", ":", "/", "/">>, 1) \cup Occurrences(low, <<"h", "t", "t", "p", "s", ":", "/", "/">>, 1)

\* re.findall(r'https?://[^\s"\'<>]+\.pdf', text, re.IGNORECASE) on a script
\* that holds at most one URL: the match, or <<>>
ScriptMatch(text) ==
    IF SchemeStarts(lower(text)) = {} THEN <<>>
    ELSE MatchAt(text, lower(text), Min(SchemeStarts(lower(text))))

\* what a pass finds in a tag: [hit, url, thumb, title]
Miss == [hit |-> FALSE, url |-> <<>>, thumb |-> <<>>, title |-> <<>>]

\* a PDF without thumbnail, titled by its file name
Plain(url) ==
    [hit |-> TRUE, url |-> url, thumb |-> <<>>, title |-> filename_title(url)]

\* the PDF of an <a> link
Link(tag, absolute_url) ==
    [hit |-> TRUE, url |-> absolute_url,
     thumb |-> IF tag.thumb = <<>> THEN <<>> ELSE urljoin(base_url, tag.thumb),
     title |-> LinkTitle(tag, absolute_url)]

\* the PDF of a script's text
Script(match) == IF match # <<>> THEN Plain(match) ELSE Miss

\* what one of the six passes over the tags finds in a tag
Candidate(tag, pass) ==
    CASE pass = "a" ->
            IF tag.name = "a" /\ MentionsPdf(tag.attr)
            THEN Link(tag, urljoin(base_url, tag.attr)) ELSE Miss
      [] pass \in {"embed", "iframe", "object"} ->
            IF tag.name = pass /\ MentionsPdf(tag.attr)
            THEN Plain(urljoin(base_url, tag.attr)) ELSE Miss
      [] pass = "script" ->
            IF tag.name = "script" THEN Script(ScriptMatch(tag.text)) ELSE Miss
      [] pass = "attrs" ->
            IF MentionsPdf(tag.attr)
            THEN Plain(urljoin(base_url, tag.attr)) ELSE Miss

Passes == <<"a", "embed", "iframe", "object", "script", "attrs">>

\* Collect without the test on pdf_urls_seen
Collect_AnyUrl(acc, c) ==
    IF c.hit
    THEN [pdf_data |-> Append(acc.pdf_data,
                              [url |-> c.url, thumb |-> c.thumb, title |-> c.title]),
          pdf_urls_seen |-> acc.pdf_urls_seen \cup {c.url}]
    ELSE acc

\* acc, [pdf_data, pdf_urls_seen], with the candidate c when it is a hit
\* whose URL is new
Collect(acc, c) ==
    IF c.hit /\ c.url \notin acc.pdf_urls_seen
    THEN [pdf_data |-> Append(acc.pdf_data,
                              [url |-> c.url, thumb |-> c.thumb, title |-> c.title]),
          pdf_urls_seen |-> acc.pdf_urls_seen \cup {c.url}]
    ELSE acc

\* one pass over the tags from tag i on
RECURSIVE ScanTags(_, _, _, _)
ScanTags(tags, pass, i, acc) ==
    IF i > Len(tags) THEN acc
    ELSE ScanTags(tags, pass, i + 1, Collect(acc, Candidate(tags[i], pass)))

RECURSIVE ScanPasses(_, _, _)
ScanPasses(tags, k, acc) ==
    IF k > Len(Passes) THEN acc
    ELSE ScanPasses(tags, k + 1, ScanTags(tags, Passes[k], 1, acc))

\* sorted(pdf_data, key=lambda x: x[0]): a stable insertion sort on the URL
RECURSIVE InsertByUrl(_, _)
InsertByUrl(sorted, x) ==
    IF sorted = <<>> THEN <<x>>
    ELSE IF StrLess(x.url, Head(sorted).url) THEN <<x>> \o sorted
    ELSE <<Head(sorted)>> \o InsertByUrl(Tail(sorted), x)

RECURSIVE SortByUrl(_)
SortByUrl(data) ==
    IF data = <<>> THEN <<>>
    ELSE InsertByUrl(SortByUrl(SubSeq(data, 1, Len(data) - 1)), data[Len(data)])

find_pdf_links_with_thumbnails(tags) ==
    SortByUrl(ScanPasses(tags, 1, [pdf_data |-> <<>>, pdf_urls_seen |-> {}]).pdf_data)

(***************************************************************************)
(* download_pdf and download_image.  The file system maps <<directory,     *)
(* name>> to [src, complete]: the URL the content was fetched from and     *)
(* whether the whole body was written.  The network's answer to a request  *)
(* is an outcome chosen by the environment.                                *)
(***************************************************************************)
pdf_dir == <<"p", "d", "f", "s">>
thumb_dir == <<"t", "h", "u", "m", "b", "n", "a", "i", "l", "s">>

\* the answers to the request of download_pdf: the request fails (no
\* connection, a timeout, an HTTP error status), or a response arrives
\* whose Content-Type may mention pdf, whose body may start with %PDF, and
\* whose body may break off while it is streamed
PdfOutcomes ==
    {[status |-> "error", ctype_pdf |-> FALSE, magic |-> FALSE, body |-> "ok"]}
    \cup [status : {"ok"}, ctype_pdf : BOOLEAN, magic : BOOLEAN, body : {"ok", "broken"}]

ImageOutcomes == {"error", "ok", "broken"}

Exists(fs, dir, name) == <<dir, name>> \in DOMAIN fs

\* the file system with the file written
WriteFile(fs, dir, name, content) ==
    [p \in DOMAIN fs \cup {<<dir, name>>} |->
        IF p = <<dir, name>> THEN content ELSE fs[p]]

ContentOf(fs, dir, name) == IF Exists(fs, dir, name) THEN fs[<<dir, name>>] ELSE None

\* path_parts[-1] if path_parts else "download.pdf"
LastPart(parts) ==
    IF parts # <<>> THEN parts[Len(parts)] ELSE <<"d", "o", "w", "n", "l", "o", "a", "d", ".", "p", "d", "f">>

WithPdfSuffix(name) == IF EndsWith(name, DOT_PDF) THEN name ELSE name \o DOT_PDF

\* the file name for a path whose basename is name
PathFilename(path, name) ==
    IF name = <<>> \/ ~EndsWith(name, DOT_PDF)
    THEN WithPdfSuffix(LastPart(PathParts(path)))
    ELSE name

PathName(path) == PathFilename(path, basename(path))

\* the target file name of download_pdf: the URL's basename, or its last
\* path part with ".pdf" appended, sanitized
PdfFilename(url) == sanitize(PathName(UrlPath(url)))

\* download_pdf from the request on, without the existence check
SaveAs_NoExistsCheck(url, output_dir, filename, fs, outcome) ==
    IF outcome.status = "error"
    THEN [success |-> FALSE, filename |-> filename, requested |-> TRUE,
          files |-> fs]
    ELSE [success |-> TRUE, filename |-> filename, requested |-> TRUE,
          files |-> WriteFile(fs, output_dir, filename,
                              [src |-> url, complete |-> TRUE])]

\* download_pdf from the existence check on, with the target file name
SaveAs(url, output_dir, filename, fs, outcome) ==
    LET sniff == ~outcome.ctype_pdf /\ ~EndsWith(lower(url), DOT_PDF)
        failed(f) == [success |-> FALSE, filename |-> filename,
                      requested |-> TRUE, files |-> f]
    IN  IF Exists(fs, output_dir, filename)
        THEN [success |-> TRUE, filename |-> filename, requested |-> FALSE,
              files |-> fs]
        ELSE IF outcome.status = "error" THEN failed(fs)
        \* response.content reads the whole body before the file is opened
        ELSE IF sniff /\ outcome.body = "broken" THEN failed(fs)
        ELSE IF sniff /\ ~outcome.magic THEN failed(fs)
        \* the body breaks off inside "with open(...)": the file is there
        ELSE IF outcome.body = "broken"
        THEN failed(WriteFile(fs, output_dir, filename,
                              [src |-> url, complete |-> FALSE]))
        ELSE [success |-> TRUE, filename |-> filename, requested |-> TRUE,
              files |-> WriteFile(fs, output_dir, filename,
                                  [src |-> url, complete |-> TRUE])]

\* download_pdf(url, output_dir) on the file system fs with the answer
\* outcome: [success, filename, requested, files]
download_pdf(url, output_dir, fs, outcome) ==
    SaveAs(url, output_dir, PdfFilename(url), fs, outcome)

\* the target file name of download_image for a given file name
ImageFilename(filename) ==
    sanitize(IF Contains(filename, <<".">>) THEN filename ELSE filename \o <<".", "j", "p", "g">>)

\* download_image(url, output_dir, filename) with a non-empty url and file
\* name: [success, filename, requested, files]
download_image(url, output_dir, filename, fs, outcome) ==
    LET name == ImageFilename(filename)
    IN  IF Exists(fs, output_dir, name)
        THEN [success |-> TRUE, filename |-> name, requested |-> FALSE, files |-> fs]
        ELSE IF outcome = "error"
        THEN [success |-> FALSE, filename |-> name, requested |-> TRUE, files |-> fs]
        ELSE IF outcome = "broken"
        THEN [success |-> FALSE, filename |-> name, requested |-> TRUE,
              files |-> WriteFile(fs, output_dir, name,
                                  [src |-> url, complete |-> FALSE])]
        ELSE [success |-> TRUE, filename |-> name, requested |-> TRUE,
              files |-> WriteFile(fs, output_dir, name,
                                  [src |-> url, complete |-> TRUE])]

\* ".jpg" for a URL without extension
ExtOrJpg(ext) == IF ext = <<>> THEN <<".", "j", "p", "g">> ELSE ext

\* the thumbnail's file name main makes of the PDF's file name and the
\* thumbnail URL's extension
ThumbFilename(pdf_name, thumb_url) ==
    splitext(pdf_name)[1] \o <<"_", "t", "h", "u", "m", "b">> \o ExtOrJpg(splitext(UrlPath(thumb_url))[2])

(***************************************************************************)
(* fetch_video_links_from_tutorial_pages                                   *)
(***************************************************************************)
\* video_map[key] = url on a dictionary kept as its items in insertion
\* order: a present key keeps its place
DictSet(map, key, url) ==
    IF \E i \in 1..Len(map) : map[i].key = key
    THEN [i \in 1..Len(map) |->
             IF map[i].key = key THEN [key |-> key, url |-> url] ELSE map[i]]
    ELSE Append(map, [key |-> key, url |-> url])

\* the normalized keys, stored when the normalized title is not empty
StoreNormalized(map, normalized, video_url, prefix) ==
    IF normalized = <<>> THEN map
    ELSE DictSet(DictSet(map, normalized, video_url),
                 prefix \o <<" ">> \o normalized, video_url)

\* the keys of the stripped title t of at least 3 characters
StoreStripped(map, t, video_url, prefix) ==
    IF Len(t) < 3 THEN map
    ELSE StoreNormalized(
             DictSet(DictSet(map, lower(t), video_url),
                     strip(prefix \o <<" ">> \o lower(t)), video_url),
             normalize_title(t), video_url, prefix)

\* store_video_mapping(title, video_url, level_prefix)
store_video_mapping(map, title, video_url, level_prefix) ==
    IF title = <<>> \/ video_url = None THEN map
    ELSE StoreStripped(map, strip(title), video_url, lower(level_prefix))

\* the four tutorial pages with the (title, video URL) pairs the scan of a
\* fetched page finds on it
TutorialPages ==
    << [url |-> <<"h", "t", "t", "p", "s", ":", "/", "/", "n", "u", "d", "e", "l", ".", "s", "h", "o", "p", "/", "p", "a", "g", "e", "s", "/", "l", "e", "v", "e", "l", "-", "1", "-", "t", "u", "t", "o", "r", "i", "a", "l">>,
        level_prefix |-> <<"L", "e", "v", "e", "l", " ", "1">>,
        videos |-> <<[title |-> <<" ", "A", "b", ".">>, video |-> "v1"]>>],
       [url |-> <<"h", "t", "t", "p", "s", ":", "/", "/", "n", "u", "d", "e", "l", ".", "s", "h", "o", "p", "/", "p", "a", "g", "e", "s", "/", "l", "e", "v", "e", "l", "-", "2", "-", "t", "u", "t", "o", "r", "i", "a", "l">>,
        level_prefix |-> <<"L", "e", "v", "e", "l", " ", "2">>,
        videos |-> <<[title |-> <<"a", "b", "!">>, video |-> "v2"],
                     [title |-> <<"b", " ", "a", "!">>, video |-> "v3"]>>],
       [url |-> <<"h", "t", "t", "p", "s", ":", "/", "/", "n", "u", "d", "e", "l", ".", "s", "h", "o", "p", "/", "p", "a", "g", "e", "s", "/", "l", "e", "v", "e", "l", "-", "3", "-", "t", "u", "t", "o", "r", "i", "a", "l">>,
        level_prefix |-> <<"L", "e", "v", "e", "l", " ", "3">>,
        videos |-> <<>>],
       [url |-> <<"h", "t", "t", "p", "s", ":", "/", "/", "n", "u", "d", "e", "l", ".", "s", "h", "o", "p", "/", "p", "a", "g", "e", "s", "/", "l", "e", "v", "e", "l", "-", "4", "-", "t", "u", "t", "o", "r", "i", "a", "l">>,
        level_prefix |-> <<"L", "e", "v", "e", "l", " ", "4">>,
        videos |-> <<[title |-> <<"x">>, video |-> "v4"],
                     [title |-> <<"!", "!", "!">>, video |-> "v5"]>>] >>

\* the mappings of a fetched page's videos, stored in order
RECURSIVE StoreVideos(_, _, _)
StoreVideos(map, videos, level_prefix) ==
    IF videos = <<>> THEN map
    ELSE StoreVideos(store_video_mapping(map, Head(videos).title,
                                         Head(videos).video, level_prefix),
                     Tail(videos), level_prefix)

\* a failed tutorial page that empties the index
TutorialDiscards(map) == <<>>

\* what the "except Exception: continue" of a tutorial page leaves of the
\* index
TutorialFailed(map) == map

(***************************************************************************)
(* create_html_gallery: the cards [pdf_path, thumbnail, title, video_url]  *)
(***************************************************************************)
\* the card shows the placeholder instead of an image
NoThumbnail == <<>>

\* a card that always points at the local files
Card_Local(item, video_index, fs, use_remote_assets) ==
    [pdf_path |-> pdf_dir \o <<"/">> \o item.pdf_filename,
     thumbnail |-> IF item.thumb # <<>> /\ Exists(fs, thumb_dir, item.thumb)
                   THEN thumb_dir \o <<"/">> \o item.thumb
                   ELSE NoThumbnail,
     title |-> item.title,
     video_url |-> find_best_video_match(item.title, video_index,
                                         extract_level(item.title))]

Card(item, video_index, fs, use_remote_assets) ==
    [pdf_path |-> IF use_remote_assets THEN item.url
                  ELSE pdf_dir \o <<"/">> \o item.pdf_filename,
     thumbnail |-> IF use_remote_assets
                   THEN (IF item.thumb # <<>> THEN item.thumb ELSE NoThumbnail)
                   ELSE IF item.thumb # <<>> /\ Exists(fs, thumb_dir, item.thumb)
                   THEN thumb_dir \o <<"/">> \o item.thumb
                   ELSE NoThumbnail,
     title |-> item.title,
     video_url |-> find_best_video_match(item.title, video_index,
                                         extract_level(item.title))]

create_html_gallery(data, video_index, fs, use_remote_assets) ==
    [i \in 1..Len(data) |-> Card(data[i], video_index, fs, use_remote_assets)]

(***************************************************************************)
(* The step-by-step pages of the model                                     *)
(***************************************************************************)
Tag(name, attr, text, img_alt, thumb) ==
    [name |-> name, attr |-> attr, text |-> text, img_alt |-> img_alt, thumb |-> thumb]

\* a page without PDF links
PageNoLinks == <<Tag("a", <<"/", "p", "a", "g", "e", "s", "/", "a", "b", "o", "u", "t">>, <<"A", "b", "o", "u", "t">>, <<>>, <<>>)>>

\* a link with a title and a thumbnail, the same PDF embedded once more, and
\* a link with a generic text, a query string and no thumbnail
PageGuides ==
    << Tag("a", <<"/", "f", "/", "a", ".", "p", "d", "f">>, <<"L", "e", "v", "e", "l", " ", "1", " ", "-", " ", "a", "b">>, <<>>, <<"/", "i", "/", "a", ".", "p", "n", "g">>),
       Tag("embed", <<"/", "f", "/", "a", ".", "p", "d", "f">>, <<>>, <<>>, <<>>),
       Tag("a", <<"/", "b", "-", "a", ".", "p", "d", "f", "?", "v", "=", "1">>, <<"D", "o", "w", "n", "l", "o", "a", "d">>, <<>>, <<>>) >>

\* two PDFs with the same file name in two directories, one of them in a
\* script, the other with a thumbnail
PageSameNames ==
    << Tag("script", <<>>, <<"u", "=", "'", "h", "t", "t", "p", "s", ":", "/", "/", "n", "u", "d", "e", "l", ".", "s", "h", "o", "p", "/", "y", "/", "a", "b", ".", "p", "d", "f", "'">>, <<>>, <<>>),
       Tag("a", <<"/", "x", "/", "a", "b", ".", "p", "d", "f">>, <<>>, <<"L", "e", "v", "e", "l", " ", "2", ":", " ", "a", "b">>, <<"/", "i", "/", "t">>) >>

PrimaryPages == {PageNoLinks, PageGuides, PageSameNames}

Modes == {"download", "deploy"}

MaxRuns == 2

(***************************************************************************)
(* main                                                                    *)
(***************************************************************************)
NoFiles == <<>>

RunStart(fs) ==
    /\ pc = "fetch" /\ exit_code = <<>>
    /\ pdf_data = <<>> /\ idx = 0 /\ pdf_filename = <<>>
    /\ stats = NoStats /\ processed_data = <<>> /\ video_map = <<>>
    /\ tutorial_i = 0
    /\ page_status = "pending" /\ requests = <<>> /\ calls = <<>>
    /\ tutorial_log = <<>> /\ gallery_writes = 0
    /\ files_at_start = fs

Init ==
    /\ mode \in Modes
    /\ page \in PrimaryPages
    /\ run = 1
    /\ files = NoFiles
    /\ gallery = <<>>
    /\ RunStart(NoFiles)
    /\ TitleIdle
    /\ MatchIdle
    /\ PdfIdle

\* a failed fetch of the step-by-step page that is ignored
PageFetchIgnored == [pc |-> "extract", exit_code |-> <<>>]

\* sys.exit(1) after a RequestException of the step-by-step page's fetch
PageFetchFailed == [pc |-> "exit", exit_code |-> <<1>>]

\* requests.get(url) and raise_for_status() of main and of
\* create_deployable_gallery
FetchPage ==
    /\ pc = "fetch"
    /\ requests' = Append(requests, [kind |-> "page", url |-> base_url])
    /\ \E ok \in BOOLEAN :
          IF ok
          THEN /\ page_status' = "ok"
               /\ pc' = "extract"
               /\ exit_code' = exit_code
          ELSE /\ page_status' = "failed"
               /\ pc' = PageFetchFailed.pc
               /\ exit_code' = PageFetchFailed.exit_code
    /\ UNCHANGED <<mode, page, run, pdf_data, idx, pdf_filename, stats,
                   processed_data, video_map, tutorial_i, files, gallery>>
    /\ UNCHANGED <<calls, tutorial_log, gallery_writes, files_at_start>>
    /\ UNCHANGED <<titleVars, matchVars, pdfVars>>

\* an empty extraction that goes on to the gallery
NoLinksIgnored == [pc |-> "gallery", exit_code |-> <<>>]

\* sys.exit(0) when the extraction finds nothing
NoLinksFound == [pc |-> "exit", exit_code |-> <<0>>]

\* find_pdf_links_with_thumbnails, and sys.exit(0) when it finds nothing
Extract ==
    /\ pc = "extract"
    /\ pdf_data' = find_pdf_links_with_thumbnails(page)
    /\ IF pdf_data' = <<>>
       THEN pc' = NoLinksFound.pc /\ exit_code' = NoLinksFound.exit_code /\ idx' = idx
       ELSE /\ exit_code' = exit_code
            /\ IF mode = "download"
               THEN pc' = "pdf" /\ idx' = 1
               ELSE pc' = "prepare" /\ idx' = idx
    /\ UNCHANGED <<mode, page, run, pdf_filename, stats, processed_data,
                   video_map, tutorial_i, files, gallery>>
    /\ UNCHANGED runVars
    /\ UNCHANGED <<titleVars, matchVars, pdfVars>>

\* a download loop that is left after any iteration
LeaveLoop(i, n) ==
    [pc |-> "videos", idx |-> i + 1, tutorial_i |-> 1, exit_code |-> <<>>]

\* where the download loop goes after the iteration of item i of n
LoopNext(i, n) ==
    [pc |-> IF i + 1 > n THEN "videos" ELSE "pdf", idx |-> i + 1,
     tutorial_i |-> IF i + 1 > n THEN 1 ELSE 0, exit_code |-> <<>>]

\* a failed download_pdf that ends the run
AbortRun(i, n) == [pc |-> "exit", idx |-> i, tutorial_i |-> 0, exit_code |-> <<1>>]

\* the "continue" after a failed download_pdf
AfterPdfFailure(i, n) == LoopNext(i, n)

CallRecord(fn, url, dir, r, fs) ==
    [fn |-> fn, url |-> url, filename |-> r.filename,
     existed |-> Exists(fs, dir, r.filename),
     success |-> r.success, requested |-> r.requested,
     before |-> ContentOf(fs, dir, r.filename),
     after |-> ContentOf(r.files, dir, r.filename)]

\* one iteration of main's download loop up to the thumbnail
\* a count that drops the failed downloads
CountPdf_FailuresLost(st, success) ==
    IF success THEN [st EXCEPT !.successful_pdfs = @ + 1] ELSE st

\* the counters after download_pdf returned success (lines 1042-1045)
CountPdf(st, success) ==
    IF success THEN [st EXCEPT !.successful_pdfs = @ + 1]
    ELSE [st EXCEPT !.failed_pdfs = @ + 1]

\* the counters after download_image returned success (lines 1062-1066)
CountThumb(st, success) ==
    IF success THEN [st EXCEPT !.successful_thumbs = @ + 1]
    ELSE [st EXCEPT !.failed_thumbs = @ + 1]

DownloadPdf ==
    /\ pc = "pdf"
    /\ \E outcome \in PdfOutcomes :
       \E r \in {download_pdf(pdf_data[idx].url, pdf_dir, files, outcome)} :
          LET item == pdf_data[idx]
              next == IF r.success THEN LoopNext(idx, Len(pdf_data))
                      ELSE AfterPdfFailure(idx, Len(pdf_data))
          IN  /\ files' = r.files
              /\ calls' = Append(calls, CallRecord("download_pdf", item.url,
                                                   pdf_dir, r, files))
              /\ requests' = IF r.requested
                             THEN Append(requests, [kind |-> "pdf", url |-> item.url])
                             ELSE requests
              /\ stats' = CountPdf(stats, r.success)
              /\ IF r.success /\ item.thumb # <<>>
                 THEN /\ pdf_filename' = r.filename
                      /\ pc' = "thumb"
                      /\ UNCHANGED <<idx, tutorial_i, exit_code, processed_data>>
                 ELSE /\ pdf_filename' = r.filename
                      /\ processed_data' =
                            IF r.success
                            THEN Append(processed_data,
                                        [url |-> item.url, thumb |-> <<>>,
                                         title |-> item.title,
                                         pdf_filename |-> r.filename])
                            ELSE processed_data
                      /\ pc' = next.pc
                      /\ idx' = next.idx
                      /\ tutorial_i' = next.tutorial_i
                      /\ exit_code' = next.exit_code
    /\ UNCHANGED <<mode, page, run, pdf_data, video_map, gallery>>
    /\ UNCHANGED <<page_status, tutorial_log, gallery_writes, files_at_start>>
    /\ UNCHANGED <<titleVars, matchVars, pdfVars>>

\* a thumbnail name that is kept after a failed download_image
ThumbKept(r) == r.filename

\* thumb_filename after download_image: None after a failure
ThumbOf(r) == IF r.success THEN r.filename ELSE <<>>

\* the thumbnail part of the iteration, after a successful download_pdf of
\* an item with a thumbnail URL
DownloadThumb ==
    /\ pc = "thumb"
    /\ \E outcome \in ImageOutcomes :
       \E r \in {download_image(pdf_data[idx].thumb, thumb_dir,
                                 ThumbFilename(pdf_filename, pdf_data[idx].thumb),
                                 files, outcome)} :
          LET item == pdf_data[idx]
              next == LoopNext(idx, Len(pdf_data))
          IN  /\ files' = r.files
              /\ calls' = Append(calls, CallRecord("download_image", item.thumb,
                                                   thumb_dir, r, files))
              /\ requests' = IF r.requested
                             THEN Append(requests, [kind |-> "image", url |-> item.thumb])
                             ELSE requests
              /\ stats' = CountThumb(stats, r.success)
              /\ processed_data' =
                    Append(processed_data,
                           [url |-> item.url,
                            thumb |-> ThumbOf(r),
                            title |-> item.title,
                            pdf_filename |-> pdf_filename])
              /\ pc' = next.pc
              /\ idx' = next.idx
              /\ tutorial_i' = next.tutorial_i
    /\ UNCHANGED <<mode, page, run, exit_code, pdf_data, pdf_filename, video_map,
                   gallery>>
    /\ UNCHANGED <<page_status, tutorial_log, gallery_writes, files_at_start>>
    /\ UNCHANGED <<titleVars, matchVars, pdfVars>>

\* create_deployable_gallery's gallery data: the remote URLs
Prepare ==
    /\ pc = "prepare"
    /\ processed_data' =
          [i \in 1..Len(pdf_data) |->
              [url |-> pdf_data[i].url, thumb |-> pdf_data[i].thumb,
               title |-> pdf_data[i].title,
               pdf_filename |-> basename(UrlPath(pdf_data[i].url))]]
    /\ pc' = "videos"
    /\ tutorial_i' = 1
    /\ UNCHANGED <<mode, page, run, exit_code, pdf_data, idx, pdf_filename, stats,
                   video_map, files, gallery>>
    /\ UNCHANGED runVars
    /\ UNCHANGED <<titleVars, matchVars, pdfVars>>

\* one iteration of the loop of fetch_video_links_from_tutorial_pages
FetchTutorial ==
    /\ pc = "videos"
    /\ LET tp == TutorialPages[tutorial_i]
       IN  /\ requests' = Append(requests, [kind |-> "tutorial", url |-> tp.url])
           /\ \E ok \in BOOLEAN :
                 /\ tutorial_log' = Append(tutorial_log,
                                           [page |-> tutorial_i, ok |-> ok])
                 /\ video_map' = IF ok
                                 THEN StoreVideos(video_map, tp.videos, tp.level_prefix)
                                 ELSE TutorialFailed(video_map)
    /\ tutorial_i' = tutorial_i + 1
    /\ pc' = IF tutorial_i = Len(TutorialPages) THEN "gallery" ELSE "videos"
    /\ UNCHANGED <<mode, page, run, exit_code, pdf_data, idx, pdf_filename, stats,
                   processed_data, files, gallery>>
    /\ UNCHANGED <<page_status, calls, gallery_writes, files_at_start>>
    /\ UNCHANGED <<titleVars, matchVars, pdfVars>>

\* create_html_gallery, the summary, and the return of main
WriteGallery ==
    /\ pc = "gallery"
    /\ gallery' = <<create_html_gallery(processed_data, video_map, files,
                                        mode = "deploy")>>
    /\ gallery_writes' = gallery_writes + 1
    /\ pc' = "exit"
    /\ exit_code' = <<0>>
    /\ UNCHANGED <<mode, page, run, pdf_data, idx, pdf_filename, stats,
                   processed_data, video_map, tutorial_i, files>>
    /\ UNCHANGED <<page_status, requests, calls, tutorial_log, files_at_start>>
    /\ UNCHANGED <<titleVars, matchVars, pdfVars>>

\* the script is run again, with the same arguments, on the files the
\* earlier runs left
Rerun ==
    /\ pc = "exit"
    /\ run < MaxRuns
    /\ run' = run + 1
    /\ pc' = "fetch" /\ exit_code' = <<>>
    /\ pdf_data' = <<>> /\ idx' = 0 /\ pdf_filename' = <<>>
    /\ stats' = NoStats /\ processed_data' = <<>> /\ video_map' = <<>>
    /\ tutorial_i' = 0
    /\ page_status' = "pending" /\ requests' = <<>> /\ calls' = <<>>
    /\ tutorial_log' = <<>> /\ gallery_writes' = 0
    /\ files_at_start' = files
    /\ UNCHANGED <<mode, page, files, gallery>>
    /\ UNCHANGED <<titleVars, matchVars, pdfVars>>

Next ==
    \/ FetchPage
    \/ Extract
    \/ DownloadPdf
    \/ DownloadThumb
    \/ Prepare
    \/ FetchTutorial
    \/ WriteGallery
    \/ Rerun

Spec == Init /\ [][Next]_vars

(***************************************************************************)
(* Properties of main                                                      *)
(***************************************************************************)
\* the calls of download_pdf of the run, in order
PdfCalls == LET IsPdf(c) == c.fn = "download_pdf" IN SelectSeq(calls, IsPdf)

Succeeded(s) == LET Ok(c) == c.success IN SelectSeq(s, Ok)

Failed(s) == LET NotOk(c) == ~c.success IN SelectSeq(s, NotOk)

Urls(s) == [i \in 1..Len(s) |-> s[i].url]

\* the requests of the run for PDFs and images
DownloadRequests ==
    LET IsDownload(r) == r.kind \in {"pdf", "image"} IN SelectSeq(requests, IsDownload)

TutorialRequests ==
    LET IsTutorial(r) == r.kind = "tutorial" IN SelectSeq(requests, IsTutorial)

\* C7: in download mode the calls of download_pdf follow the extracted list
\* item by item, whatever failed before; a failed call is counted in
\* failed_pdfs and its item is left out of the gallery data; once the loop
\* is over every item has been attempted exactly once, and a run that found
\* PDFs ends only with the gallery written and the exit status 0.
C7_FailuresDoNotAbort ==
    (mode = "download" /\ page_status = "ok") =>
        /\ Len(PdfCalls) <= Len(pdf_data)
        /\ \A i \in 1..Len(PdfCalls) : PdfCalls[i].url = pdf_data[i].url
        /\ stats.failed_pdfs = Len(Failed(PdfCalls))
        /\ stats.successful_pdfs = Len(Succeeded(PdfCalls))
        /\ (pc \in {"videos", "gallery", "exit"} /\ pdf_data # <<>>) =>
                /\ Urls(PdfCalls) = Urls(pdf_data)
                /\ Urls(processed_data) = Urls(Succeeded(PdfCalls))
        /\ (pc = "exit" /\ pdf_data # <<>>) =>
                gallery_writes = 1 /\ exit_code = <<0>>

\* a run whose first download_pdf failed and whose second one succeeded,
\* ended with the gallery written for the second item only
C7_Witness ==
    /\ mode = "download" /\ pc = "exit" /\ exit_code = <<0>>
    /\ Len(PdfCalls) = 2
    /\ ~PdfCalls[1].success /\ PdfCalls[2].success
    /\ stats.failed_pdfs = 1
    /\ Urls(processed_data) = <<pdf_data[2].url>>
    /\ gallery_writes = 1 /\ Len(gallery[1]) = 1

\* C8: in both modes, after the fetch of the step-by-step page failed the
\* run is over with the exit status 1, and the page's request is the only
\* thing the run did: no call of download_pdf or download_image, no
\* tutorial page fetched, no gallery written, no file touched.
C8_PageFetchFailureFatal ==
    page_status = "failed" =>
        /\ pc = "exit" /\ exit_code = <<1>>
        /\ requests = <<[kind |-> "page", url |-> base_url]>>
        /\ calls = <<>>
        /\ tutorial_log = <<>>
        /\ gallery_writes = 0
        /\ files = files_at_start
        /\ pdf_data = <<>> /\ processed_data = <<>> /\ video_map = <<>>

\* the page fetch of a second run in deploy mode failed, after a first run
\* that wrote the gallery
C8_Witness ==
    /\ page_status = "failed" /\ mode = "deploy" /\ run = 2
    /\ gallery # <<>> /\ exit_code = <<1>>

\* the pages of the log whose fetch succeeded
OkPages == {tutorial_log[i].page : i \in {j \in 1..Len(tutorial_log) : tutorial_log[j].ok}}

\* the key under which a video of page p is stored with the level prefix
PrefixedKey(p, v) ==
    strip(lower(TutorialPages[p].level_prefix) \o <<" ">> \o lower(strip(v.title)))

\* C9: the tutorial pages are requested one after the other in the order of
\* the list, each once; every entry of the index carries the video of a
\* page whose fetch succeeded; every video of such a page (with a title of
\* at least 3 characters) is in the index under its level-prefixed key,
\* whichever pages failed before or after it; and after the fourth page the
\* run goes on to the gallery, never to an error exit.
C9_TutorialFailuresDegrade ==
    /\ Len(tutorial_log) <= Len(TutorialPages)
    /\ \A i \in 1..Len(tutorial_log) : tutorial_log[i].page = i
    /\ Len(TutorialRequests) = Len(tutorial_log)
    /\ \A i \in 1..Len(TutorialRequests) : TutorialRequests[i].url = TutorialPages[i].url
    /\ \A k \in 1..Len(video_map) :
          \E p \in OkPages : \E j \in 1..Len(TutorialPages[p].videos) :
             video_map[k].url = TutorialPages[p].videos[j].video
    /\ \A p \in OkPages : \A j \in 1..Len(TutorialPages[p].videos) :
          Len(strip(TutorialPages[p].videos[j].title)) >= 3 =>
             \E k \in 1..Len(video_map) :
                /\ video_map[k].key = PrefixedKey(p, TutorialPages[p].videos[j])
                /\ video_map[k].url = TutorialPages[p].videos[j].video
    /\ Len(tutorial_log) \in 1..(Len(TutorialPages) - 1) => pc = "videos"
    /\ Len(tutorial_log) = Len(TutorialPages) =>
          pc \in {"gallery", "exit"} /\ exit_code # <<1>>
    /\ gallery_writes = 1 => Len(tutorial_log) = Len(TutorialPages)

\* the second and the third page failed, and the index that goes to the
\* gallery holds the videos of the first and of the fourth page
C9_Witness ==
    /\ pc = "gallery"
    /\ Len(tutorial_log) = 4
    /\ tutorial_log[1].ok /\ ~tutorial_log[2].ok /\ ~tutorial_log[3].ok
    /\ tutorial_log[4].ok
    /\ \E k \in 1..Len(video_map) : video_map[k].url = "v1"
    /\ \E k \in 1..Len(video_map) : video_map[k].url = "v5"
    /\ \A k \in 1..Len(video_map) : video_map[k].url \in {"v1", "v5"}

\* the directory a call writes to
DirOf(c) == IF c.fn = "download_pdf" THEN pdf_dir ELSE thumb_dir

\* C10: a call of download_pdf or download_image whose target file exists
\* returns success with the target's name, issues no request and leaves
\* the file as it was; the download requests of a run are those of the
\* calls whose target was missing; so a later run requests nothing for a
\* file an earlier run left, and nothing at all when all its targets were
\* left by earlier runs.
C10_ExistingFilesNotRefetched ==
    /\ \A i \in 1..Len(calls) :
          /\ calls[i].fn = "download_pdf" => calls[i].filename = PdfFilename(calls[i].url)
          /\ calls[i].existed =>
                /\ calls[i].success
                /\ ~calls[i].requested
                /\ calls[i].after = calls[i].before
          /\ Exists(files_at_start, DirOf(calls[i]), calls[i].filename) =>
                calls[i].existed /\ ~calls[i].requested
    /\ LET Requested(c) == c.requested
       IN  Urls(DownloadRequests) = Urls(SelectSeq(calls, Requested))
    /\ (run > 1 /\ \A i \in 1..Len(calls) :
                      Exists(files_at_start, DirOf(calls[i]), calls[i].filename)) =>
          DownloadRequests = <<>>

\* a second run over a list of two PDFs and a thumbnail that ended with the
\* gallery written and requested none of them
C10_Witness ==
    /\ run = 2 /\ mode = "download" /\ pc = "exit" /\ gallery_writes = 1
    /\ Len(calls) = 3
    /\ \E i \in 1..Len(calls) : calls[i].fn = "download_image"
    /\ \A i \in 1..Len(calls) : calls[i].existed /\ calls[i].success
    /\ DownloadRequests = <<>>

(***************************************************************************)
(* SpecExtract: find_pdf_links_with_thumbnails on the pages made of up to  *)
(* MaxTags different tags that reference a PDF through an anchor, an       *)
(* embed, an iframe, an object, a script and another attribute             *)
(***************************************************************************)
TagAnchor == Tag("a", <<"/", "f", "/", "a", ".", "p", "d", "f">>, <<"L", "e", "v", "e", "l", " ", "1", " ", "-", " ", "a", "b">>, <<>>, <<"/", "i", "/", "a", ".", "p", "n", "g">>)
TagEmbed == Tag("embed", <<"/", "f", "/", "a", ".", "p", "d", "f">>, <<>>, <<>>, <<>>)
TagIframe == Tag("iframe", <<"h", "t", "t", "p", "s", ":", "/", "/", "n", "u", "d", "e", "l", ".", "s", "h", "o", "p", "/", "f", "/", "a", ".", "p", "d", "f">>, <<>>, <<>>, <<>>)
TagObject == Tag("object", <<"/", "f", "/", "a", ".", "p", "d", "f">>, <<>>, <<>>, <<>>)
TagScript == Tag("script", <<>>, <<"u", "=", "'", "h", "t", "t", "p", "s", ":", "/", "/", "n", "u", "d", "e", "l", ".", "s", "h", "o", "p", "/", "f", "/", "a", ".", "p", "d", "f", "'">>, <<>>, <<>>)
TagDiv == Tag("div", <<"/", "f", "/", "a", ".", "p", "d", "f">>, <<>>, <<>>, <<>>)
TagOther == Tag("a", <<"/", "g", "/", "b", ".", "p", "d", "f">>, <<"D", "o", "w", "n", "l", "o", "a", "d">>, <<>>, <<>>)

TagPool == {TagAnchor, TagEmbed, TagIframe, TagObject, TagScript, TagDiv, TagOther}

MaxTags == 3

\* the sequences of n different tags of the pool
RECURSIVE PagesOfLen(_)
PagesOfLen(n) ==
    IF n = 0 THEN {<<>>}
    ELSE UNION {{Append(pg, t) : t \in TagPool \ Range(pg)} : pg \in PagesOfLen(n - 1)}

ExtractPages == UNION {PagesOfLen(n) : n \in 0..MaxTags}

\* main after the step-by-step page was fetched
InitExtract ==
    /\ mode \in Modes
    /\ page \in ExtractPages
    /\ run = 1
    /\ files = NoFiles
    /\ gallery = <<>>
    /\ pc = "extract" /\ exit_code = <<>>
    /\ pdf_data = <<>> /\ idx = 0 /\ pdf_filename = <<>>
    /\ stats = NoStats /\ processed_data = <<>> /\ video_map = <<>>
    /\ tutorial_i = 0
    /\ page_status = "ok"
    /\ requests = <<[kind |-> "page", url |-> base_url]>>
    /\ calls = <<>> /\ tutorial_log = <<>> /\ gallery_writes = 0
    /\ files_at_start = NoFiles
    /\ TitleIdle
    /\ MatchIdle
    /\ PdfIdle

NextExtract == Extract

SpecExtract == InitExtract /\ [][NextExtract]_vars

\* C11: the records that find_pdf_links_with_thumbnails returns have
\* pairwise distinct URLs, for every page of ExtractPages: every choice and
\* order of tags that reference the same PDF.
C11_UrlsDistinct ==
    pc # "extract" =>
        \A i \in 1..Len(pdf_data) : \A j \in 1..Len(pdf_data) :
            i # j => pdf_data[i].url # pdf_data[j].url

\* the script, the anchor and the embed of the same PDF, in this order,
\* gave one record
C11_Witness ==
    /\ page = <<TagScript, TagAnchor, TagEmbed>>
    /\ pc # "extract"
    /\ Len(pdf_data) = 1
    /\ pdf_data[1].url = <<"h", "t", "t", "p", "s", ":", "/", "/", "n", "u", "d", "e", "l", ".", "s", "h", "o", "p", "/", "f", "/", "a", ".", "p", "d", "f">>

(***************************************************************************)
(* The order of the steps of a run                                         *)
(***************************************************************************)
\* the step of the pipeline a request belongs to
StepOf(kind) ==
    CASE kind = "page" -> 1
      [] kind \in {"pdf", "image"} -> 3
      [] kind = "tutorial" -> 4

ImageCalls == LET IsImage(c) == c.fn = "download_image" IN SelectSeq(calls, IsImage)

\* the items of pdf_data with a thumbnail URL whose download_pdf succeeded
ThumbDue ==
    {i \in 1..Len(PdfCalls) : PdfCalls[i].success /\ pdf_data[i].thumb # <<>>}

\* C12: in download mode the requests of a run are the page's request,
\* then those of the downloads, then those of the tutorial pages; nothing
\* is extracted before the page was fetched, no download is called before
\* the extraction, no tutorial page is fetched before every item of the
\* extracted list had its download_pdf and its due download_image; the
\* gallery is written at most once in a run, after all four tutorial pages
\* were attempted, and its cards carry the matches of the titles against
\* the finished index.
C12_LinearPipeline ==
    mode = "download" =>
        /\ \A i \in 1..Len(requests) : \A j \in 1..Len(requests) :
              i < j => StepOf(requests[i].kind) <= StepOf(requests[j].kind)
        /\ \A i \in 1..Len(requests) : requests[i].kind = "page" <=> i = 1
        /\ pdf_data # <<>> => page_status = "ok"
        /\ calls # <<>> => pdf_data # <<>>
        /\ tutorial_log # <<>> =>
              /\ Len(PdfCalls) = Len(pdf_data)
              /\ Len(ImageCalls) = Cardinality(ThumbDue)
        /\ gallery_writes <= 1
        /\ gallery_writes = 1 =>
              /\ pc = "exit"
              /\ Len(tutorial_log) = Len(TutorialPages)
              /\ Len(PdfCalls) = Len(pdf_data)
              /\ gallery = <<create_html_gallery(processed_data, video_map, files, FALSE)>>

\* a run that requested the page, two PDFs, a thumbnail and the four
\* tutorial pages, and wrote the gallery
C12_Witness ==
    /\ mode = "download" /\ pc = "exit" /\ gallery_writes = 1
    /\ [i \in 1..Len(requests) |-> requests[i].kind]
          = <<"page", "pdf", "pdf", "image", "tutorial", "tutorial", "tutorial", "tutorial">>
    /\ Len(gallery[1]) = 2

\* C13: in deploy mode download_pdf and download_image are never called, no
\* file is written, the only requests are those of the step-by-step page
\* and of the tutorial pages, and the gallery has one card per extracted
\* record, whose PDF link is the record's URL and whose image is the
\* record's thumbnail URL (the placeholder when the record has none).
C13_DeployDownloadsNothing ==
    mode = "deploy" =>
        /\ calls = <<>>
        /\ files = NoFiles
        /\ \A i \in 1..Len(requests) : requests[i].kind \in {"page", "tutorial"}
        /\ gallery_writes = 1 =>
              /\ Len(gallery[1]) = Len(pdf_data)
              /\ \A i \in 1..Len(pdf_data) :
                    /\ gallery[1][i].pdf_path = pdf_data[i].url
                    /\ gallery[1][i].title = pdf_data[i].title
                    /\ gallery[1][i].thumbnail =
                          IF pdf_data[i].thumb # <<>> THEN pdf_data[i].thumb
                          ELSE NoThumbnail

\* a deploy run over a page with two PDFs, one of them with a thumbnail,
\* wrote the gallery after the page and the four tutorial pages
C13_Witness ==
    /\ mode = "deploy" /\ pc = "exit" /\ gallery_writes = 1
    /\ Len(requests) = 1 + Len(TutorialPages)
    /\ Len(gallery[1]) = 2
    /\ gallery[1][2].thumbnail = <<"h", "t", "t", "p", "s", ":", "/", "/", "n", "u", "d", "e", "l", ".", "s", "h", "o", "p", "/", "i", "/", "a", ".", "p", "n", "g">>
    /\ gallery[1][1].thumbnail = NoThumbnail

\* the items of the gallery data with the URL url
DataOf(url) == {j \in 1..Len(processed_data) : processed_data[j].url = url}

\* C17: in download mode a call of download_image directly follows a
\* successful download_pdf of an item that has this thumbnail URL; once the
\* loop is over the item of a failed download_image is in the gallery data,
\* once, without thumbnail, and the card the gallery shows for it has the
\* placeholder.
C17_ThumbnailFailureKeepsAsset ==
    mode = "download" =>
        \A k \in 1..Len(calls) :
            calls[k].fn = "download_image" =>
                /\ k > 1
                /\ calls[k - 1].fn = "download_pdf"
                /\ calls[k - 1].success
                /\ calls[k].url # <<>>
                /\ \E i \in 1..Len(pdf_data) :
                      /\ pdf_data[i].url = calls[k - 1].url
                      /\ pdf_data[i].thumb = calls[k].url
                /\ (~calls[k].success /\ pc \in {"videos", "gallery", "exit"}) =>
                      /\ Cardinality(DataOf(calls[k - 1].url)) = 1
                      /\ \A j \in DataOf(calls[k - 1].url) :
                            /\ processed_data[j].thumb = <<>>
                            /\ gallery_writes = 1 =>
                                  gallery[1][j].thumbnail = NoThumbnail

\* the transfer of a thumbnail broke off and left a partial file; the
\* gallery was written with the asset's card showing the placeholder
C17_Witness ==
    /\ mode = "download" /\ pc = "exit" /\ gallery_writes = 1
    /\ \E k \in 1..Len(calls) :
          /\ calls[k].fn = "download_image"
          /\ ~calls[k].success
          /\ Exists(files, thumb_dir, calls[k].filename)
          /\ \E j \in DataOf(calls[k - 1].url) :
                gallery[1][j].thumbnail = NoThumbnail

\* C18: in both modes, when the extraction found nothing the run is over
\* with the exit status 0, and the page's request is all it did: no call of
\* download_pdf or download_image, no tutorial page fetched, no gallery
\* written, no file touched.
C18_NoLinksExitsZero ==
    (page_status = "ok" /\ pc # "extract" /\ pdf_data = <<>>) =>
        /\ pc = "exit" /\ exit_code = <<0>>
        /\ requests = <<[kind |-> "page", url |-> base_url]>>
        /\ calls = <<>>
        /\ tutorial_log = <<>>
        /\ gallery_writes = 0
        /\ files = files_at_start
        /\ processed_data = <<>> /\ video_map = <<>>

\* a deploy run over the page without PDF links
C18_Witness ==
    /\ mode = "deploy" /\ page = PageNoLinks
    /\ page_status = "ok" /\ pc = "exit" /\ exit_code = <<0>>
    /\ pdf_data = <<>>

(***************************************************************************)
(* SpecPdf: one call of download_pdf (lines 413-478) for every URL, every  *)
(* answer of the network and every state of the output directory.          *)
(***************************************************************************)
U_Pdf == <<"h", "t", "t", "p", "s", ":", "/", "/", "n", "u", "d", "e", "l", ".", "s", "h", "o", "p", "/", "f", "/", "a", ".", "p", "d", "f">>
U_Query == <<"h", "t", "t", "p", "s", ":", "/", "/", "n", "u", "d", "e", "l", ".", "s", "h", "o", "p", "/", "g", "e", "t", "?", "i", "d", "=", "1">>
U_Dir == <<"h", "t", "t", "p", "s", ":", "/", "/", "n", "u", "d", "e", "l", ".", "s", "h", "o", "p", "/", "d", "/">>
PdfUrls == {U_Pdf, U_Query, U_Dir}

\* the output directory: empty, or holding one earlier download
PdfDirs ==
    {NoFiles} \cup {WriteFile(NoFiles, pdf_dir, PdfFilename(u),
                              [src |-> u, complete |-> TRUE]) : u \in PdfUrls}

InitPdf ==
    /\ TitleIdle
    /\ MatchIdle
    /\ MainIdle
    /\ dUrl \in PdfUrls
    /\ dFiles \in PdfDirs
    /\ dOutcome \in PdfOutcomes
    /\ pcD = "call"
    /\ dResult = [success |-> FALSE, filename |-> <<>>, requested |-> FALSE,
                  files |-> <<>>]

CallDownloadPdf ==
    /\ pcD = "call"
    /\ dResult' = download_pdf(dUrl, pdf_dir, dFiles, dOutcome)
    /\ pcD' = "done"
    /\ UNCHANGED <<dUrl, dFiles, dOutcome, titleVars, matchVars, mainVars, runVars>>

NextPdf == CallDownloadPdf

SpecPdf == InitPdf /\ [][NextPdf]_vars

\* the response is not recognisably a PDF (lines 455-459)
NotAPdf ==
    /\ dOutcome.status = "ok"
    /\ ~dOutcome.ctype_pdf
    /\ ~EndsWith(lower(dUrl), DOT_PDF)
    /\ ~dOutcome.magic

TargetBefore == Exists(dFiles, pdf_dir, dResult.filename)
TargetAfter == Exists(dResult.files, pdf_dir, dResult.filename)

\* C19: download_pdf returns failure and writes no file when the request
\* fails, and when the Content-Type does not mention pdf, the URL does not
\* end in .pdf and the body does not start with %PDF (the target not being
\* there already); and a file is at the target path after the call only if
\* the call returned success.
C19_FailureLeavesNoFile ==
    pcD = "done" =>
        /\ (~TargetBefore /\ (dOutcome.status = "error" \/ NotAPdf))
               => (~dResult.success /\ dResult.files = dFiles)
        /\ TargetAfter => dResult.success

\* the two failure cases of C19 alone: they hold
C19_RejectedWritesNothing ==
    (pcD = "done" /\ ~TargetBefore /\ (dOutcome.status = "error" \/ NotAPdf))
        => (~dResult.success /\ dResult.files = dFiles)

\* a call that returned failure and left a file at the target path
C19_PartialFileLeft ==
    /\ pcD = "done"
    /\ ~dResult.success
    /\ ~TargetBefore
    /\ TargetAfter

(***************************************************************************)
(* The counters of the download loop (lines 1039-1072)                     *)
(***************************************************************************)
\* between two iterations of the loop, or behind it
BetweenIterations == pc \in {"pdf", "videos", "gallery"} \/ gallery_writes = 1

\* the loop has ended
LoopEnded == pc \in {"videos", "gallery"} \/ gallery_writes = 1

\* C20: in a download run, after every iteration successful_pdfs +
\* failed_pdfs is the number of items processed so far (the calls of
\* download_pdf, and the loop's position minus one), processed_data is as
\* long as successful_pdfs, and successful_thumbs + failed_thumbs, the
\* number of download_image calls, is at most successful_pdfs at every
\* moment; when the loop has ended successful_pdfs + failed_pdfs is the
\* number of extracted items.
C20_CounterInvariant ==
    mode = "download" =>
        /\ stats.successful_thumbs + stats.failed_thumbs <= stats.successful_pdfs
        /\ stats.successful_thumbs + stats.failed_thumbs = Len(ImageCalls)
        /\ BetweenIterations =>
              /\ stats.successful_pdfs + stats.failed_pdfs = Len(PdfCalls)
              /\ pc = "pdf" => stats.successful_pdfs + stats.failed_pdfs = idx - 1
              /\ Len(processed_data) = stats.successful_pdfs
        /\ LoopEnded =>
              stats.successful_pdfs + stats.failed_pdfs = Len(pdf_data)

\* the loop has ended after a failed download_pdf, a successful one and a
\* failed thumbnail
C20_Witness ==
    /\ mode = "download"
    /\ pc = "videos"
    /\ Len(pdf_data) = 2
    /\ stats.failed_pdfs = 1
    /\ stats.successful_pdfs = 1
    /\ stats.failed_thumbs = 1
    /\ Len(processed_data) = 1

(***************************************************************************)
(* The local file names of a download run (lines 424-445, 1047-1072)       *)
(***************************************************************************)
\* the items of the gallery data whose PDF file was written in this run
WrittenThisRun ==
    {k \in 1..Len(processed_data) :
        /\ Exists(files, pdf_dir, processed_data[k].pdf_filename)
        /\ ~Exists(files_at_start, pdf_dir, processed_data[k].pdf_filename)}

\* C21: in a download run, two items with different source URLs whose
\* download_pdf both returned success have different local file names, and
\* no item of the gallery data names a file of this run whose content was
\* fetched from another URL than the item's own.
C21_DistinctUrlsDistinctFiles ==
    mode = "download" =>
        /\ \A i \in 1..Len(PdfCalls) : \A j \in 1..Len(PdfCalls) :
              (PdfCalls[i].success /\ PdfCalls[j].success
                  /\ PdfCalls[i].url # PdfCalls[j].url)
                 => PdfCalls[i].filename # PdfCalls[j].filename
        /\ \A k \in WrittenThisRun :
              files[<<pdf_dir, processed_data[k].pdf_filename>>].src
                 = processed_data[k].url

\* a first run that wrote the gallery with two cards of different URLs
\* pointing at one file, which holds the content of the first URL only
C21_SharedFile ==
    /\ mode = "download"
    /\ run = 1
    /\ gallery_writes = 1
    /\ Len(processed_data) = 2
    /\ processed_data[1].url # processed_data[2].url
    /\ processed_data[1].pdf_filename = processed_data[2].pdf_filename
    /\ gallery[1][1].pdf_path = gallery[1][2].pdf_path
    /\ files[<<pdf_dir, processed_data[2].pdf_filename>>].src = processed_data[1].url
    /\ stats.successful_pdfs = 2
    /\ stats.failed_pdfs = 0

====
